---- MODULE Spec2Model ----
(***************************************************************************)
(* Resilient inference gateway of akibcse24/ai-solution: credential        *)
(* parsing, the key-rotating retry policy, the fallback chains, diagram    *)
(* generation, the streaming chat flow and the batch refinement waves.     *)
(* One entry point is exercised per behaviour (variable entry).            *)
(***************************************************************************)
EXTENDS Integers, Sequences, FiniteSets, TLC

VARIABLES
    entry,            \* the entry point this behaviour exercises
    keyString,        \* getAllKeys: the argument, [defined, chars]
    parsedKeys,       \* getAllKeys: the returned array
    pPc,              \* getAllKeys: "call" | "returned"
    localStored,      \* key loaders: the value localStorage holds, [defined, chars]
    envValues,        \* key loaders: the environment values, in lookup order
    geminiKeys,       \* number of credentials getGeminiKeys() returns
    orKeys,   \* number of credentials getOpenRouterKeys() returns
    groqKey,          \* TRUE when getGroqApiKey() returns a key
    refineProvider,   \* refineAcademicAnswer: the provider argument of the caller
    backend,          \* outcome of the backend per <<link, key>> request, once fixed
    rPc,              \* withProviderRetry: "idle" | "invoke" | "delay" | "returned" | "thrown"
    rLink,            \* withProviderRetry: the call site (link) that called it
    maxRetriesPerKey, \* withProviderRetry: the parameter
    shuffledKeys,     \* withProviderRetry: the shuffled pool
    rKeyPos,          \* withProviderRetry: position of the outer loop in shuffledKeys
    rI,               \* withProviderRetry: the inner loop counter i
    lastError,        \* withProviderRetry: lastError
    rResult,          \* withProviderRetry: the value returned or the error thrown
    rInvocations,     \* history: the invocations of fn, in order, as [key, outcome, error]
    rDelays,          \* history: number of delay(500) waits
    cPc,              \* chain: the link being awaited, or "idle" | "returned" | "thrown"
    cLog,             \* chain: the console events of this execution, in order
    cResult,          \* chain: the value returned or the error thrown
    cAttempts,        \* history: the links attempted by this execution, in order
    run,              \* number of the chain execution in progress (1 or 2)
    firstResult,      \* cResult of the first execution, once it ended
    dPc,              \* generateTechnicalDiagram: "idle" | "attempt" | "delay" | "returned" | "thrown"
    dI,               \* withRetry: the loop counter i
    dResult,          \* generateTechnicalDiagram: the value returned or the error thrown
    dRequests,        \* history: the key of every generateContent request, in order
    dWaits,           \* history: the backoff waits in ms, in order
    appState,         \* App: state (AppState)
    enabledQuestions, \* startGeneration: number of enabled questions
    failing,          \* the questions whose processQuestion always throws
    bI,               \* startGeneration: the loop counter i
    batchResults,     \* startGeneration: result of each task of the wave in flight, or Pending
    results,          \* startGeneration: results
    refinedQuestions, \* App: refinedQuestions
    currentGenStep,   \* App: currentGenStep
    totalGenSteps,    \* App: totalGenSteps
    failureCount,     \* startGeneration: failureCount
    appError,         \* App: error
    groqClient,       \* ChatService: TRUE when groqClient is not null
    openRouterKeys,   \* ChatService: number of entries of openRouterKeys
    currentOpenRouterIndex, \* ChatService: the rotation cursor
    mode,             \* streamChat: mode of the turn
    isLoading,        \* ChatView: isLoading
    sPc,              \* the turn's generator: "idle" | "open" | "read" | "yield" | "done" | "thrown"
    sPath,            \* streamChat: "groq" | "openrouter" | "none"
    sI,               \* streamChat: the key loop counter i
    sLastError,       \* streamChat: lastError
    sError,           \* the error streamChat threw
    emitted,          \* the contents of the chunks read from the open stream, in order
    pending,          \* the value at the yield the generator is suspended on
    requests,         \* history: the requests of this turn, in order
    delivered,        \* history: the values the consumer received this turn, in order
    deliveredAtOpen,  \* history: Len(delivered) when the current stream opened
    fullContent,      \* handleSubmit: fullContent
    assistantContent, \* content of the turn's assistant message
    surfaced,         \* the errors handleSubmit appended as system messages this turn
    hOutcome,         \* how the last turn ended: "none" | "completed" | "failed"
    turns,            \* number of turns started
    validKeys,        \* concurrent turns: the OpenRouter keys the backend accepts
    tPc,              \* concurrent turns: per turn "idle" | "open" | "done" | "thrown"
    tI,               \* concurrent turns: per turn, i of streamChat's key loop
    tRequests,        \* history: per turn, the keys of its requests, in order
    tError            \* concurrent turns: per turn, the error streamChat threw

rvars == <<rPc, rLink, maxRetriesPerKey, shuffledKeys, rKeyPos, rI, lastError,
           rResult, rInvocations, rDelays>>
pvars == <<keyString, parsedKeys, pPc, localStored, envValues>>
poolvars == <<geminiKeys, orKeys, groqKey, refineProvider>>
cvars == <<cPc, cLog, cResult, cAttempts, run, firstResult>>
dvars == <<dPc, dI, dResult, dRequests, dWaits>>
bvars == <<appState, enabledQuestions, failing, bI, batchResults, results,
           refinedQuestions, currentGenStep, totalGenSteps, failureCount, appError>>
chvars == <<groqClient, openRouterKeys, currentOpenRouterIndex, mode, isLoading, sPc,
            sPath, sI, sLastError, sError, emitted, pending, requests, delivered,
            deliveredAtOpen, fullContent, assistantContent, surfaced, hOutcome, turns>>
ccvars == <<validKeys, tPc, tI, tRequests, tError>>
vars == <<entry, pvars, poolvars, backend, rvars, cvars, dvars, bvars, chvars, ccvars>>

\* what the steps of each component leave alone
exceptParse == <<entry, poolvars, backend, rvars, cvars, dvars, bvars, chvars, ccvars>>
exceptRetry == <<entry, pvars, poolvars, cvars, dvars, bvars, chvars, ccvars>>
exceptChain == <<entry, pvars, poolvars, dvars, bvars, chvars, ccvars>>
exceptDiagram == <<entry, pvars, poolvars, backend, rvars, cvars, bvars, chvars, ccvars>>
exceptChat == <<entry, pvars, poolvars, backend, rvars, cvars, dvars, bvars, ccvars>>
exceptBatch == <<entry, pvars, poolvars, backend, rvars, cvars, dvars, chvars, ccvars>>

(***************************************************************************)
(* Bounds                                                                  *)
(***************************************************************************)
MaxStrLen == 4           \* longest enumerated credential string
MaxSourceLen == 1        \* longest stored or environment value of a key loader
MaxKeys == 3             \* largest key pool of a direct withProviderRetry call
MaxRetries == 2          \* largest maxRetriesPerKey
MaxChainKeys == 2        \* largest key pool of a provider under a fallback chain
MaxQuestions == 5        \* largest number of enabled questions of a batch
MaxChatKeys == 2         \* largest OpenRouter key pool of a ChatService
MaxDeltas == 2           \* largest number of chunks of one stream
MaxTurns == 2            \* largest number of chat turns on one ChatService

None == [kind |-> "none"]

(***************************************************************************)
(* Credential parsing: getAllKeys                                          *)
(***************************************************************************)
Alphabet == {"a", "b", " ", ",", "\n"}
\* the example of the specification: "a, b,\nc"
ExampleString == <<"a", ",", " ", "b", ",", "\n", "c">>

\* characters matched by the split pattern /[,\n]/
IsSeparator(c) == c \in {",", "\n"}
\* characters removed by String.prototype.trim
IsWhitespace(c) == c \in {" ", "\n", "\t", "\r"}

RECURSIVE SplitAcc(_, _, _)
SplitAcc(s, cur, acc) ==
    IF s = <<>> THEN Append(acc, cur)
    ELSE IF IsSeparator(Head(s)) THEN SplitAcc(Tail(s), <<>>, Append(acc, cur))
    ELSE SplitAcc(Tail(s), Append(cur, Head(s)), acc)

SplitCommaOnly(s) ==
    LET RECURSIVE F(_, _, _)
        F(t, cur, acc) ==
            IF t = <<>> THEN Append(acc, cur)
            ELSE IF Head(t) = "," THEN F(Tail(t), <<>>, Append(acc, cur))
            ELSE F(Tail(t), Append(cur, Head(t)), acc)
    IN F(s, <<>>, <<>>)

\* keyString.split(/[,\n]/)
Split(s) == SplitAcc(s, <<>>, <<>>)

RECURSIVE TrimStart(_)
TrimStart(s) == IF s # <<>> /\ IsWhitespace(Head(s)) THEN TrimStart(Tail(s)) ELSE s

RECURSIVE TrimEnd(_)
TrimEnd(s) ==
    IF s # <<>> /\ IsWhitespace(s[Len(s)]) THEN TrimEnd(SubSeq(s, 1, Len(s) - 1)) ELSE s

\* k.trim()
Trim(s) == TrimEnd(TrimStart(s))

MapTrim(segs) == [i \in 1..Len(segs) |-> Trim(segs[i])]

NonEmpty(k) == Len(k) > 0

\* getAllKeys(keyString)
getAllKeys(ks) ==
    IF ~ks.defined \/ ks.chars = <<>> THEN <<>>
    ELSE SelectSeq(MapTrim(Split(ks.chars)), NonEmpty)

RECURSIVE StringsOfLen(_)
StringsOfLen(n) ==
    IF n = 0 THEN {<<>>}
    ELSE {Append(s, c) : s \in StringsOfLen(n - 1), c \in Alphabet}

KeyStrings ==
    {[defined |-> FALSE, chars |-> <<>>]} \cup
    {[defined |-> TRUE, chars |-> s] :
        s \in UNION {StringsOfLen(n) : n \in 0..MaxStrLen} \cup {ExampleString}}

\* undefined, and null
Undefined == [defined |-> FALSE, chars |-> <<>>]

ParseInit ==
    /\ keyString \in KeyStrings
    /\ parsedKeys = <<>>
    /\ pPc = "call"
    /\ localStored = Undefined
    /\ envValues = <<>>

ParseIdle ==
    /\ keyString = Undefined
    /\ parsedKeys = <<>>
    /\ pPc = "idle"
    /\ localStored = Undefined
    /\ envValues = <<>>

\* one call of getAllKeys
GetAllKeys ==
    /\ entry = "getAllKeys"
    /\ pPc = "call"
    /\ parsedKeys' = getAllKeys(keyString)
    /\ pPc' = "returned"
    /\ UNCHANGED <<keyString, localStored, envValues, exceptParse>>

(***************************************************************************)
(* Key loaders: getGeminiKeys and getOpenRouterKeys                        *)
(***************************************************************************)
SourceValues ==
    {Undefined} \cup
    {[defined |-> TRUE, chars |-> c] :
        c \in UNION {StringsOfLen(n) : n \in 0..MaxSourceLen}}

\* the values an environment variable is given: unset, empty, one key, two keys
EnvValues ==
    {Undefined} \cup
    {[defined |-> TRUE, chars |-> c] : c \in {<<>>, <<"b">>, <<"b", ",", "a">>}}

\* JavaScript truthiness of a string | null | undefined
Truthy(v) == v.defined /\ v.chars # <<>>

\* a || b
OrElse(a, b) == IF Truthy(a) THEN a ELSE b

\* a key string that joins the stored value and the first environment value
mergedKeyString(local, env) ==
    [defined |-> TRUE, chars |-> local.chars \o <<",">> \o env[1].chars]

\* keyString of getGeminiKeys at its return: env = <<VITE_GEMINI_API_KEY,
\* process.env.API_KEY, process.env.GEMINI_API_KEY>>
geminiKeyString(local, env) ==
    LET stored == OrElse(local, Undefined) IN
    IF ~Truthy(stored) THEN OrElse(env[1], OrElse(env[2], env[3])) ELSE stored

\* keyString of getOpenRouterKeys at its return: env = <<VITE_OPENROUTER_API_KEY>>
openRouterKeyString(local, env) ==
    LET stored == OrElse(local, Undefined) IN
    IF ~Truthy(stored) THEN env[1] ELSE stored

LoadInit ==
    /\ keyString = Undefined
    /\ parsedKeys = <<>>
    /\ pPc = "call"
    /\ localStored \in SourceValues
    /\ envValues \in [1..(IF entry = "getGeminiKeys" THEN 3 ELSE 1) -> EnvValues]

\* one call of getGeminiKeys
GetGeminiKeys ==
    /\ entry = "getGeminiKeys"
    /\ pPc = "call"
    /\ keyString' = geminiKeyString(localStored, envValues)
    /\ parsedKeys' = getAllKeys(keyString')
    /\ pPc' = "returned"
    /\ UNCHANGED <<localStored, envValues, exceptParse>>

\* one call of getOpenRouterKeys
GetOpenRouterKeys ==
    /\ entry = "getOpenRouterKeys"
    /\ pPc = "call"
    /\ keyString' = openRouterKeyString(localStored, envValues)
    /\ parsedKeys' = getAllKeys(keyString')
    /\ pPc' = "returned"
    /\ UNCHANGED <<localStored, envValues, exceptParse>>

(***************************************************************************)
(* Retry policy: shuffleArray and withProviderRetry                        *)
(***************************************************************************)
Outcomes == {"ok", "quota", "other"}

Swap(a, i, j) == [a EXCEPT ![i] = a[j], ![j] = a[i]]

\* the results of the Fisher-Yates loop from index i down, for every choice of j
RECURSIVE ShuffleFrom(_, _)
ShuffleFrom(a, i) ==
    IF i <= 1 THEN {a}
    ELSE UNION {ShuffleFrom(Swap(a, i, j), i - 1) : j \in 1..i}

\* a shuffle whose swap writes one side only, so that a key can be lost
shuffleArrayLossy(a) ==
    {a} \cup {[a EXCEPT ![i] = a[j]] : i \in 1..Len(a), j \in 1..Len(a)}

\* shuffleArray(array): every array Math.random can make it return
shuffleArray(a) == ShuffleFrom(a, Len(a))

\* the pool a provider's key loader returns, as credential numbers in pool order
PoolOf(provider) ==
    LET n == IF provider = "gemini" THEN geminiKeys ELSE orKeys
    IN [k \in 1..n |-> k]

ProviderOf(link) ==
    IF link \in {"directGemini", "L1", "L2", "GEM"} THEN "gemini" ELSE "openrouter"

\* error?.message?.includes('429') || error?.status === 429 || ...RESOURCE_EXHAUSTED
isQuotaError(err) == err.kind = "quota"

NoKeysError(provider) == [kind |-> "config", provider |-> provider]

RetryIdle ==
    /\ rPc = "idle"
    /\ rLink = "none"
    /\ maxRetriesPerKey = 1
    /\ shuffledKeys = <<>>
    /\ rKeyPos = 0
    /\ rI = 0
    /\ lastError = None
    /\ rResult = None
    /\ rInvocations = <<>>
    /\ rDelays = 0

ChainIdle ==
    /\ cPc = "idle"
    /\ cLog = <<>>
    /\ cResult = None
    /\ cAttempts = <<>>
    /\ run = 1
    /\ firstResult = None

\* withProviderRetry(provider, fn, retries) up to its first await
RetryCall(link, retries) ==
    LET keys == PoolOf(ProviderOf(link)) IN
    /\ rLink' = link
    /\ maxRetriesPerKey' = retries
    /\ rKeyPos' = 1
    /\ rI' = 0
    /\ lastError' = None
    /\ rInvocations' = <<>>
    /\ rDelays' = 0
    /\ IF Len(keys) = 0
       THEN /\ rPc' = "thrown"
            /\ rResult' = NoKeysError(ProviderOf(link))
            /\ shuffledKeys' = <<>>
       ELSE /\ rPc' = "invoke"
            /\ rResult' = None
            /\ shuffledKeys' \in shuffleArray(keys)

\* the model a link's request names
ModelOf(link) ==
    CASE link = "L1" -> "modelName"
      [] link = "L2" -> "gemini-2.0-flash-exp"
      [] link = "L3m1" -> "meta-llama/llama-4-maverick-17b-128e-instruct"
      [] link = "L3m2" -> "llama-3.2-90b-vision-preview"
      [] link = "L4" -> "google/gemini-flash-1.5"
      [] link = "OR" -> IF refineProvider = "openrouter" THEN "modelName"
                        ELSE "google/gemini-2.0-flash-001"
      [] link = "GEM" -> IF refineProvider = "gemini" THEN "modelName"
                         ELSE "gemini-2.0-flash-exp"
      [] OTHER -> "gemini-2.0-flash-exp"

\* the value a link's backend answers with
ValueOf(link) == [kind |-> "value", of |-> link, model |-> ModelOf(link)]

\* position of the loops after the catch block ran for an error at (pos, i):
\* "same" = delay and retry the key, "next" = break to the next key
FirstErrorOrNew(prev, err) == IF prev = None THEN err ELSE prev

NewLastError(prev, err) == err

\* retries before it fails over, whatever the size of the pool
AfterCatchRetryFirst(err, i, retries, nkeys) ==
    IF isQuotaError(err) /\ i < retries - 1 THEN "same" ELSE "next"

\* never retries a key
AfterCatchNeverSame(err, i, retries, nkeys) == "next"

\* retries every error while attempts are left
AfterCatchRetryAny(err, i, retries, nkeys) ==
    IF isQuotaError(err) /\ nkeys > 1 THEN "next"
    ELSE IF i < retries - 1 THEN "same"
    ELSE "next"

AfterCatchOffByOne(err, i, retries, nkeys) ==
    IF isQuotaError(err) /\ i < retries THEN "same" ELSE "next"

AfterCatch(err, i, retries, nkeys) ==
    IF isQuotaError(err) /\ nkeys > 1 THEN "next"
    ELSE IF isQuotaError(err) /\ i < retries - 1 THEN "same"
    ELSE "next"

ResolvesNever(o) == FALSE

\* try { return await fn(apiKey); }: the awaited call resolves and its value is returned
Resolves(o) == o = "ok"

\* await fn(apiKey) settles, and the code runs on to the next await or exit
RetryInvoke ==
    /\ rPc = "invoke"
    /\ LET key == shuffledKeys[rKeyPos]
           req == <<rLink, key>>
       IN \E o \in Outcomes :
          /\ req \in DOMAIN backend => o = backend[req]
          /\ backend' = IF req \in DOMAIN backend THEN backend
                        ELSE [r \in DOMAIN backend \cup {req} |->
                                 IF r = req THEN o ELSE backend[r]]
          /\ LET err == [kind |-> o, link |-> rLink, key |-> key,
                         n |-> Len(rInvocations) + 1]
             IN IF Resolves(o)
                THEN /\ rInvocations' = Append(rInvocations,
                            [key |-> key, outcome |-> o, error |-> None])
                     /\ rPc' = "returned"
                     /\ rResult' = ValueOf(rLink)
                     /\ UNCHANGED <<lastError, rKeyPos, rI>>
                ELSE /\ rInvocations' = Append(rInvocations,
                            [key |-> key, outcome |-> o, error |-> err])
                     /\ lastError' = NewLastError(lastError, err)
                     /\ LET step == AfterCatch(err, rI, maxRetriesPerKey,
                                               Len(shuffledKeys))
                        IN IF step = "same"
                           THEN /\ rPc' = "delay"
                                /\ UNCHANGED <<rKeyPos, rI, rResult>>
                           ELSE IF rKeyPos < Len(shuffledKeys)
                           THEN /\ rPc' = "invoke"
                                /\ rKeyPos' = rKeyPos + 1
                                /\ rI' = 0
                                /\ UNCHANGED rResult
                           ELSE /\ rPc' = "thrown"
                                /\ rResult' = lastError'
                                /\ UNCHANGED <<rKeyPos, rI>>
    /\ UNCHANGED <<exceptRetry, rLink, maxRetriesPerKey, shuffledKeys, rDelays>>

\* await delay(500); continue
RetryDelay ==
    /\ rPc = "delay"
    /\ rPc' = "invoke"
    /\ rI' = rI + 1
    /\ rDelays' = rDelays + 1
    /\ UNCHANGED <<exceptRetry, backend, rLink, maxRetriesPerKey,
                   shuffledKeys, rKeyPos, lastError, rResult, rInvocations>>

(***************************************************************************)
(* A caller of withProviderRetry outside the chains (generateChatTitle)    *)
(***************************************************************************)
DirectLinks == {"directGemini", "directOpenRouter"}

DirectInit ==
    \E link \in DirectLinks, n \in 0..MaxKeys :
       /\ geminiKeys = (IF link = "directGemini" THEN n ELSE 0)
       /\ orKeys = (IF link = "directOpenRouter" THEN n ELSE 0)
       /\ groqKey = FALSE /\ refineProvider = "gemini"
       /\ backend \in [{<<link, k>> : k \in 1..n} -> Outcomes]
       /\ RetryIdle
       /\ ChainIdle

DirectCall ==
    /\ entry = "withProviderRetry"
    /\ rPc = "idle"
    /\ \E link \in DirectLinks, retries \in 1..MaxRetries :
          /\ (link = "directGemini" => orKeys = 0)
          /\ (link = "directOpenRouter" => geminiKeys = 0)
          /\ RetryCall(link, retries)
    /\ UNCHANGED <<exceptRetry, backend>>

(***************************************************************************)
(* Fallback chains: analyzeExamPaper and refineAcademicAnswer              *)
(***************************************************************************)
ChainInit ==
    /\ geminiKeys \in 0..MaxChainKeys
    /\ orKeys \in 0..MaxChainKeys
    /\ groqKey \in BOOLEAN
    /\ refineProvider \in (IF entry = "refineAcademicAnswer"
                            THEN {"gemini", "openrouter"} ELSE {"gemini"})
    /\ backend = <<>>
    /\ RetryIdle
    /\ ChainIdle

NoEvent(link, err) == [event |-> "none"]

\* console.warn of a failed layer
LayerFailed(link, err) == [event |-> "layerFailed", link |-> link, error |-> err]

\* console.warn inside analyzeWithGroq when the first model failed
GroqModelFailed(err) == [event |-> "groqModelFailed", error |-> err]

\* console.error of the last link
AllFailed(err) == [event |-> "allFailed", error |-> err]

\* new Error(`Scan failed after 4 types of fallback. Last error: ${e.message}`)
ScanFailedFirst(err, log) ==
    [kind |-> "scanFailed", layers |-> 4,
     cause |-> IF log = <<>> THEN err ELSE log[1].error]

ScanFailed(err, log) == [kind |-> "scanFailed", layers |-> 4, cause |-> err]

NoGroqKeyError == [kind |-> "config", provider |-> "groq"]

RetryStarted == rPc # "idle"

\* the awaited withProviderRetry promise has settled
RetrySettled == rPc \in {"returned", "thrown"}

\* the request a Groq model call makes: the single Groq key
GroqRequest(link) == <<link, 1>>

\* analyzeWithGroq up to its first await, or to its throw without a key
GroqCall == IF groqKey THEN "L3m1" ELSE "L3nokey"

ChainReturn(value) ==
    /\ cPc' = "returned"
    /\ cResult' = value
    /\ UNCHANGED <<cLog, cAttempts, run, firstResult, rvars, backend>>

\* analyzeExamPaper up to the first await of Layer 1
AnalyzeCall ==
    /\ entry = "analyzeExamPaper"
    /\ cPc = "idle"
    /\ RetryCall("L1", 1)
    /\ cPc' = "L1"
    /\ cAttempts' = <<"L1">>
    /\ UNCHANGED <<cLog, cResult, run, firstResult, backend, exceptChain>>

\* Layer 1 settles: return, or warn and start Layer 2
AnalyzeLayer1 ==
    /\ cPc = "L1"
    /\ RetrySettled
    /\ IF rPc = "returned"
       THEN ChainReturn(rResult)
       ELSE /\ cLog' = Append(cLog, LayerFailed("L1", rResult))
            /\ RetryCall("L2", 1)
            /\ cPc' = "L2"
            /\ cAttempts' = Append(cAttempts, "L2")
            /\ UNCHANGED <<cResult, run, firstResult, backend>>
    /\ UNCHANGED exceptChain

\* Layer 2 settles: return, or warn and start Layer 3 (Groq)
AnalyzeLayer2 ==
    /\ cPc = "L2"
    /\ RetrySettled
    /\ IF rPc = "returned"
       THEN ChainReturn(rResult)
       ELSE /\ cLog' = Append(cLog, LayerFailed("L2", rResult))
            /\ cPc' = GroqCall
            /\ cAttempts' = Append(cAttempts, "L3")
            /\ UNCHANGED <<cResult, run, firstResult, backend, rvars>>
    /\ UNCHANGED exceptChain

\* the outcome of a Groq model call, fixed once per request
GroqOutcome(link, o) ==
    /\ o \in Outcomes
    /\ GroqRequest(link) \in DOMAIN backend => o = backend[GroqRequest(link)]
    /\ backend' = IF GroqRequest(link) \in DOMAIN backend THEN backend
                  ELSE [r \in DOMAIN backend \cup {GroqRequest(link)} |->
                           IF r = GroqRequest(link) THEN o ELSE backend[r]]

GroqError(link, o) == [kind |-> o, link |-> link, key |-> 1, n |-> 1]

\* Layer 3 failed: warn and start Layer 4 (OpenRouter)
Layer3Failed(err) ==
    /\ cLog' = Append(cLog, LayerFailed("L3", err))
    /\ RetryCall("L4", 1)
    /\ cPc' = "L4"
    /\ cAttempts' = Append(cAttempts, "L4")
    /\ UNCHANGED <<cResult, run, firstResult>>

\* Layer 3 without a Groq key: analyzeWithGroq throws before any request
AnalyzeGroqNoKey ==
    /\ cPc = "L3nokey"
    /\ Layer3Failed(NoGroqKeyError)
    /\ UNCHANGED <<backend, exceptChain>>

\* callGroq(llama-4-maverick) settles: return, or warn and call the second model
AnalyzeGroqFirstModel ==
    /\ cPc = "L3m1"
    /\ \E o \in Outcomes :
          /\ GroqOutcome("L3m1", o)
          /\ IF o = "ok"
             THEN /\ cPc' = "returned"
                  /\ cResult' = ValueOf("L3m1")
                  /\ UNCHANGED <<cLog, cAttempts, run, firstResult, rvars>>
             ELSE /\ cLog' = Append(cLog, GroqModelFailed(GroqError("L3m1", o)))
                  /\ cPc' = "L3m2"
                  /\ UNCHANGED <<cResult, cAttempts, run, firstResult, rvars>>
    /\ UNCHANGED exceptChain

\* callGroq(llama-3.2-90b-vision) settles: return, or Layer 3 has failed
AnalyzeGroqSecondModel ==
    /\ cPc = "L3m2"
    /\ \E o \in Outcomes :
          /\ GroqOutcome("L3m2", o)
          /\ IF o = "ok"
             THEN /\ cPc' = "returned"
                  /\ cResult' = ValueOf("L3m2")
                  /\ UNCHANGED <<cLog, cAttempts, run, firstResult, rvars>>
             ELSE Layer3Failed(GroqError("L3m2", o))
    /\ UNCHANGED exceptChain

\* Layer 4 settles: return, or log and throw the scan error
AnalyzeLayer4 ==
    /\ cPc = "L4"
    /\ RetrySettled
    /\ IF rPc = "returned"
       THEN ChainReturn(rResult)
       ELSE /\ cLog' = Append(cLog, AllFailed(rResult))
            /\ cPc' = "thrown"
            /\ cResult' = ScanFailed(rResult, cLog)
            /\ UNCHANGED <<cAttempts, run, firstResult, rvars, backend>>
    /\ UNCHANGED exceptChain

FirstRefineLinkByProvider ==
    IF refineProvider = "openrouter" /\ Len(PoolOf("openrouter")) > 0 THEN "OR" ELSE "GEM"

\* the link refineAcademicAnswer starts with: if (orKeys.length > 0)
FirstRefineLink == IF Len(PoolOf("openrouter")) > 0 THEN "OR" ELSE "GEM"

\* refineAcademicAnswer up to its first await: OpenRouter if it has keys, else Gemini
RefineCall ==
    /\ entry = "refineAcademicAnswer"
    /\ cPc = "idle"
    /\ RetryCall(FirstRefineLink, 1)
    /\ cPc' = FirstRefineLink
    /\ cAttempts' = <<FirstRefineLink>>
    /\ UNCHANGED <<cLog, cResult, run, firstResult, backend, exceptChain>>

\* the OpenRouter link settles: return, or warn and start the Gemini link
RefineOpenRouter ==
    /\ cPc = "OR"
    /\ RetrySettled
    /\ IF rPc = "returned"
       THEN ChainReturn(rResult)
       ELSE /\ cLog' = Append(cLog, LayerFailed("OR", rResult))
            /\ RetryCall("GEM", 1)
            /\ cPc' = "GEM"
            /\ cAttempts' = Append(cAttempts, "GEM")
            /\ UNCHANGED <<cResult, run, firstResult, backend>>
    /\ UNCHANGED exceptChain

\* the error refineAcademicAnswer rethrows from its last catch
RefineThrown(err, log) == err

\* the Gemini link settles: return, or log and rethrow its error
RefineGemini ==
    /\ cPc = "GEM"
    /\ RetrySettled
    /\ IF rPc = "returned"
       THEN ChainReturn(rResult)
       ELSE /\ cLog' = Append(cLog, AllFailed(rResult))
            /\ cPc' = "thrown"
            /\ cResult' = RefineThrown(rResult, cLog)
            /\ UNCHANGED <<cAttempts, run, firstResult, rvars, backend>>
    /\ UNCHANGED exceptChain

\* a second, independent execution of the same entry point on the same input
SecondExecution ==
    /\ entry \in {"analyzeExamPaper", "refineAcademicAnswer"}
    /\ cPc \in {"returned", "thrown"}
    /\ run = 1
    /\ run' = 2
    /\ firstResult' = cResult
    /\ cPc' = "idle"
    /\ cLog' = <<>>
    /\ cResult' = None
    /\ cAttempts' = <<>>
    /\ rPc' = "idle"
    /\ rLink' = "none"
    /\ maxRetriesPerKey' = 1
    /\ shuffledKeys' = <<>>
    /\ rKeyPos' = 0
    /\ rI' = 0
    /\ lastError' = None
    /\ rResult' = None
    /\ rInvocations' = <<>>
    /\ rDelays' = 0
    /\ UNCHANGED <<backend, exceptChain>>

(***************************************************************************)
(* Diagram generation: withRetry and generateTechnicalDiagram              *)
(***************************************************************************)
\* withRetry(..., 3, 2000)
maxRetries == 3
initialDelay == 2000

DiagramOutcomes == {"ok", "noImage", "quota", "other"}

MissingKeyError == [kind |-> "config", provider |-> "gemini", missing |-> TRUE]

DiagramIdle ==
    /\ dPc = "idle"
    /\ dI = 0
    /\ dResult = None
    /\ dRequests = <<>>
    /\ dWaits = <<>>

DiagramInit ==
    /\ geminiKeys \in 0..MaxKeys
    /\ orKeys = 0
    /\ groqKey = FALSE /\ refineProvider = "gemini"
    /\ backend = <<>>

\* getGeminiApiKey(): the keys Math.random can pick, none for an empty pool
getGeminiApiKey == {PoolOf("gemini")[k] : k \in 1..geminiKeys}

RECURSIVE Pow2(_)
Pow2(n) == IF n = 0 THEN 1 ELSE 2 * Pow2(n - 1)

WaitTimeConstant(i) == initialDelay

\* initialDelay * Math.pow(2, i)
WaitTime(i) == initialDelay * Pow2(i)

RetryWhileAttemptsLeft(err, i) == i < maxRetries - 1

\* the test of withRetry's catch: wait and go round again, or throw
ShouldRetry(err, i) == isQuotaError(err) /\ i < maxRetries - 1

\* generateTechnicalDiagram up to the first await of withRetry
DiagramCall ==
    /\ entry = "generateTechnicalDiagram"
    /\ dPc = "idle"
    /\ dPc' = "attempt"
    /\ UNCHANGED <<dI, dResult, dRequests, dWaits, exceptDiagram>>

\* withRetry's catch for the error of attempt dI
DiagramCatch(err) ==
    IF ShouldRetry(err, dI)
    THEN /\ dPc' = "delay"
         /\ dWaits' = Append(dWaits, WaitTime(dI))
         /\ UNCHANGED <<dI, dResult>>
    ELSE /\ dPc' = "thrown"
         /\ dResult' = err
         /\ UNCHANGED <<dI, dWaits>>

\* await fn() settles: without a key fn throws before any request, else the
\* generateContent request answers
DiagramAttempt ==
    /\ dPc = "attempt"
    /\ IF getGeminiApiKey = {}
       THEN /\ DiagramCatch(MissingKeyError)
            /\ UNCHANGED dRequests
       ELSE \E key \in getGeminiApiKey, o \in DiagramOutcomes :
               /\ dRequests' = Append(dRequests, key)
               /\ IF o = "ok"
                  THEN /\ dPc' = "returned"
                       /\ dResult' = [kind |-> "value", of |-> "diagram"]
                       /\ UNCHANGED <<dI, dWaits>>
                  ELSE DiagramCatch([kind |-> o, key |-> key, n |-> Len(dRequests) + 1])
    /\ UNCHANGED exceptDiagram

\* await delay(waitTime); continue
DiagramDelay ==
    /\ dPc = "delay"
    /\ dPc' = "attempt"
    /\ dI' = dI + 1
    /\ UNCHANGED <<dResult, dRequests, dWaits, exceptDiagram>>

(***************************************************************************)
(* Batch refinement: startGeneration                                       *)
(***************************************************************************)
batchSize == 3

Pending == [kind |-> "pending"]

\* the RefinedQuestion processQuestion resolves with
Refined(q) == [label |-> q, kind |-> "refined"]

\* the failure placeholder built in the catch of a task
Placeholder(q) == [label |-> q, kind |-> "placeholder"]

\* enabledQuestions.slice(i, i + batchSize), as the set of question numbers
Batch(i, n) == {q \in 1..n : i < q /\ q <= i + batchSize}

BatchIdle ==
    /\ appState = "REVIEWING"
    /\ enabledQuestions = 0
    /\ failing = {}
    /\ bI = 0
    /\ batchResults = <<>>
    /\ results = <<>>
    /\ refinedQuestions = <<>>
    /\ currentGenStep = 0
    /\ totalGenSteps = 0
    /\ failureCount = 0
    /\ appError = None

BatchInit ==
    /\ appState = "REVIEWING"
    /\ enabledQuestions \in 0..MaxQuestions
    /\ failing \in SUBSET (1..enabledQuestions)
    /\ bI = 0
    /\ batchResults = <<>>
    /\ results = <<>>
    /\ refinedQuestions = <<>>
    /\ currentGenStep = 0
    /\ totalGenSteps = 0
    /\ failureCount = 0
    /\ appError = None

Min(a, b) == IF a < b THEN a ELSE b

\* every remaining task at once
StartAllRemaining(i) == [q \in {p \in 1..enabledQuestions : i < p} |-> Pending]

\* the tasks of the wave starting at i, all in flight
StartWave(i) == [q \in Batch(i, enabledQuestions) |-> Pending]

\* the lines after the loop: publish the results and complete
Finish(res, failures) ==
    /\ refinedQuestions' = res
    /\ appState' = "COMPLETED"
    /\ appError' = IF failures > 0 THEN [kind |-> "someFailed", count |-> failures]
                   ELSE None

\* startGeneration up to its first await (the whole call when nothing is enabled)
StartGeneration ==
    /\ entry = "startGeneration"
    /\ appState = "REVIEWING"
    /\ totalGenSteps' = enabledQuestions
    /\ currentGenStep' = 0
    /\ results' = <<>>
    /\ failureCount' = 0
    /\ bI' = 0
    /\ IF enabledQuestions > 0
       THEN /\ appState' = "GENERATING"
            /\ appError' = None
            /\ batchResults' = StartWave(0)
            /\ UNCHANGED refinedQuestions
       ELSE /\ Finish(<<>>, 0)
            /\ batchResults' = <<>>
    /\ UNCHANGED <<enabledQuestions, failing, exceptBatch>>

RejectWave(f, q) == [p \in DOMAIN f |-> Placeholder(p)]

\* the catch of a task: its own slot gets the placeholder
CatchTask(f, q) == [f EXCEPT ![q] = Placeholder(q)]

\* one task of the wave settles: processQuestion resolved, or threw and the
\* catch counted the failure and built the placeholder
TaskSettles(q) ==
    /\ appState = "GENERATING"
    /\ q \in DOMAIN batchResults
    /\ batchResults[q] = Pending
    /\ IF q \in failing
       THEN /\ failureCount' = failureCount + 1
            /\ batchResults' = CatchTask(batchResults, q)
       ELSE /\ failureCount' = failureCount
            /\ batchResults' = [batchResults EXCEPT ![q] = Refined(q)]
    /\ UNCHANGED <<appState, enabledQuestions, failing, bI, results, refinedQuestions,
                   currentGenStep, totalGenSteps, appError, exceptBatch>>

\* batchResults in the order of the batch
RECURSIVE InOrder(_, _, _)
InOrder(f, from, to) ==
    IF from > to THEN <<>> ELSE <<f[from]>> \o InOrder(f, from + 1, to)

\* Promise.all resolves: push the wave's results, advance the progress, go on
WaveDone ==
    /\ appState = "GENERATING"
    /\ DOMAIN batchResults # {}
    /\ \A q \in DOMAIN batchResults : batchResults[q] # Pending
    /\ LET n == Cardinality(DOMAIN batchResults)
           res == results \o InOrder(batchResults, bI + 1, bI + n)
       IN /\ results' = res
          /\ currentGenStep' = Min(currentGenStep + n, enabledQuestions)
          /\ bI' = bI + batchSize
          /\ IF bI + batchSize < enabledQuestions
             THEN /\ batchResults' = StartWave(bI + batchSize)
                  /\ UNCHANGED <<appState, refinedQuestions, appError>>
             ELSE /\ batchResults' = <<>>
                  /\ Finish(res, failureCount)
    /\ UNCHANGED <<enabledQuestions, failing, totalGenSteps, failureCount, exceptBatch>>

(***************************************************************************)
(* Chat: ChatService.streamChat / makeRequest and ChatView.handleSubmit    *)
(***************************************************************************)
Modes == {"pro", "flash", "uncensored"}

\* HTTP statuses a failing request or stream can carry (500: any other error)
Statuses == {401, 404, 500}

\* chunk.choices[0]?.delta?.content || '' of the chunks a backend can send
DeltaValues == {"", "Hel", "lo"}

ChatIdle ==
    /\ groqClient = FALSE
    /\ openRouterKeys = 0
    /\ currentOpenRouterIndex = 0
    /\ mode = "pro"
    /\ isLoading = FALSE
    /\ sPc = "idle"
    /\ sPath = "none"
    /\ sI = 0
    /\ sLastError = None
    /\ sError = None
    /\ emitted = <<>>
    /\ pending = ""
    /\ requests = <<>>
    /\ delivered = <<>>
    /\ deliveredAtOpen = 0
    /\ fullContent = ""
    /\ assistantContent = ""
    /\ surfaced = <<>>
    /\ hOutcome = "none"
    /\ turns = 0

\* new ChatService({groqKey, openRouterKey}) with any configuration
ChatInit ==
    /\ groqClient \in BOOLEAN
    /\ openRouterKeys \in 0..MaxChatKeys
    /\ currentOpenRouterIndex = 0
    /\ mode = "pro"
    /\ isLoading = FALSE
    /\ sPc = "idle"
    /\ sPath = "none"
    /\ sI = 0
    /\ sLastError = None
    /\ sError = None
    /\ emitted = <<>>
    /\ pending = ""
    /\ requests = <<>>
    /\ delivered = <<>>
    /\ deliveredAtOpen = 0
    /\ fullContent = ""
    /\ assistantContent = ""
    /\ surfaced = <<>>
    /\ hOutcome = "none"
    /\ turns = 0

RECURSIVE SplitCommaAcc(_, _, _)
SplitCommaAcc(s, cur, acc) ==
    IF s = <<>> THEN Append(acc, cur)
    ELSE IF Head(s) = "," THEN SplitCommaAcc(Tail(s), <<>>, Append(acc, cur))
    ELSE SplitCommaAcc(Tail(s), Append(cur, Head(s)), acc)

\* config.openRouterKey.split(',')
SplitComma(s) == SplitCommaAcc(s, <<>>, <<>>)

\* this.openRouterKeys after the constructor ran on config.openRouterKey
constructorKeys(ks) ==
    IF ~Truthy(ks) THEN <<>>
    ELSE SelectSeq(MapTrim(SplitComma(ks.chars)), NonEmpty)

\* new ChatService({openRouterKey: keyString})
ConstructChatService ==
    /\ entry = "ChatService"
    /\ pPc = "call"
    /\ parsedKeys' = constructorKeys(keyString)
    /\ openRouterKeys' = Len(parsedKeys')
    /\ pPc' = "returned"
    /\ UNCHANGED <<keyString, localStored, envValues, entry, poolvars, backend, rvars,
                   cvars, dvars, bvars, ccvars>>
    /\ UNCHANGED <<groqClient, currentOpenRouterIndex, mode, isLoading, sPc, sPath, sI,
                   sLastError, sError, emitted, pending, requests, delivered,
                   deliveredAtOpen, fullContent, assistantContent, surfaced, hOutcome,
                   turns>>

isGroqModeProOnly(m) == m = "pro"

\* mode === 'pro' || mode === 'flash'
isGroqMode(m) == m = "pro" \/ m = "flash"

getFirstKey(index) == 1

\* the credential getOpenRouterClient() builds its client with
getOpenRouterClient(index) == (index % openRouterKeys) + 1

rotateNoWrap(index) == index + 1

\* rotateOpenRouterKey()
rotateOpenRouterKey(index) == (index + 1) % openRouterKeys

SettingsError(m) == [kind |-> "settings", status |-> 0, req |-> 0, mode |-> m]

\* the error makeRequest's catch rethrows for a failure of status st: a 404
\* becomes a new Error, which has no status; http keeps the status of the
\* failure the error was made from
MakeRequestError(st, n) ==
    IF st = 404 THEN [kind |-> "modelNotFound", status |-> 0, req |-> n, http |-> st]
    ELSE [kind |-> "api", status |-> st, req |-> n, http |-> st]

Request(provider, key) == [provider |-> provider, key |-> key]

\* handleSubmit up to its first await: the messages are appended, the
\* generator starts and runs to its first request or to the settings error
HandleSubmit ==
    /\ entry = "chat"
    /\ ~isLoading
    /\ sPc = "idle"
    /\ turns < MaxTurns
    /\ turns' = turns + 1
    /\ isLoading' = TRUE
    /\ hOutcome' = "none"
    /\ fullContent' = ""
    /\ assistantContent' = ""
    /\ delivered' = <<>>
    /\ deliveredAtOpen' = 0
    /\ emitted' = <<>>
    /\ pending' = ""
    /\ surfaced' = <<>>
    /\ sI' = 0
    /\ sLastError' = None
    /\ \E m \in Modes :
          /\ mode' = m
          /\ IF isGroqMode(m) /\ groqClient
             THEN /\ sPath' = "groq"
                  /\ requests' = <<Request("groq", 1)>>
                  /\ sPc' = "open"
                  /\ sError' = None
             ELSE IF openRouterKeys = 0
             THEN /\ sPath' = "none"
                  /\ requests' = <<>>
                  /\ sPc' = "thrown"
                  /\ sError' = SettingsError(m)
             ELSE /\ sPath' = "openrouter"
                  /\ requests' = <<Request("openrouter",
                                     getOpenRouterClient(currentOpenRouterIndex))>>
                  /\ sPc' = "open"
                  /\ sError' = None
    /\ UNCHANGED <<groqClient, openRouterKeys, currentOpenRouterIndex, exceptChat>>

ShouldRotateBeforeOutput(err, out) == err.status = 401 /\ out = <<>>

ShouldRotateOnAnyStatus(err, out) == err.status # 0

ShouldRotateOnServerError(err, out) == err.status = 401 \/ err.status = 500

\* the test of streamChat's catch
ShouldRotate(err, out) == err.status = 401

\* a request or its stream fails with status st: makeRequest's catch, then
\* the catch of streamChat's key loop (the Groq path has none)
FailRequest(st) ==
    LET err == MakeRequestError(st, Len(requests)) IN
    IF sPath = "groq"
    THEN /\ sPc' = "thrown"
         /\ sError' = err
         /\ UNCHANGED <<sI, sLastError, currentOpenRouterIndex, requests>>
    ELSE /\ sLastError' = err
         /\ IF ShouldRotate(err, delivered)
            THEN /\ currentOpenRouterIndex' = rotateOpenRouterKey(currentOpenRouterIndex)
                 /\ sI' = sI + 1
                 /\ IF sI + 1 < openRouterKeys
                    THEN /\ requests' = Append(requests, Request("openrouter",
                                 getOpenRouterClient(currentOpenRouterIndex')))
                         /\ sPc' = "open"
                         /\ UNCHANGED sError
                    ELSE /\ sPc' = "thrown"
                         /\ sError' = err
                         /\ UNCHANGED requests
            ELSE /\ sPc' = "thrown"
                 /\ sError' = err
                 /\ UNCHANGED <<sI, currentOpenRouterIndex, requests>>

\* await client.chat.completions.create(...) settles
StreamOpen ==
    /\ sPc = "open"
    /\ \/ /\ sPc' = "read"
          /\ emitted' = <<>>
          /\ deliveredAtOpen' = Len(delivered)
          /\ UNCHANGED <<sI, sLastError, sError, currentOpenRouterIndex, requests>>
       \/ /\ \E st \in Statuses : FailRequest(st)
          /\ UNCHANGED <<emitted, deliveredAtOpen>>
    /\ UNCHANGED <<groqClient, openRouterKeys, mode, isLoading, sPath, pending,
                   delivered, fullContent, assistantContent, surfaced, hOutcome,
                   turns, exceptChat>>

RECURSIVE ConcatAll(_)
ConcatAll(ss) == IF ss = <<>> THEN "" ELSE Head(ss) \o ConcatAll(Tail(ss))

YieldCumulative(content, before) == ConcatAll(before) \o content

\* what makeRequest yields for a chunk of the given content
YieldValue(content, before) == content

\* the stream delivers its next chunk, ends, or fails
StreamChunk ==
    /\ sPc = "read"
    /\ \/ /\ Len(emitted) < MaxDeltas
          /\ \E c \in DeltaValues :
                /\ emitted' = Append(emitted, c)
                /\ IF c # ""
                   THEN /\ pending' = YieldValue(c, emitted)
                        /\ sPc' = "yield"
                   ELSE /\ sPc' = "read"
                        /\ UNCHANGED pending
          /\ UNCHANGED <<sI, sLastError, sError, currentOpenRouterIndex, requests>>
       \/ /\ sPc' = "done"
          /\ UNCHANGED <<emitted, pending, sI, sLastError, sError,
                         currentOpenRouterIndex, requests>>
       \/ /\ \E st \in Statuses : FailRequest(st)
          /\ UNCHANGED <<emitted, pending>>
    /\ UNCHANGED <<groqClient, openRouterKeys, mode, isLoading, sPath, delivered,
                   deliveredAtOpen, fullContent, assistantContent, surfaced,
                   hOutcome, turns, exceptChat>>

\* the body of handleSubmit's for await loop, then the next read
Consume ==
    /\ sPc = "yield"
    /\ fullContent' = fullContent \o pending
    /\ assistantContent' = fullContent'
    /\ delivered' = Append(delivered, pending)
    /\ pending' = ""
    /\ sPc' = "read"
    /\ UNCHANGED <<groqClient, openRouterKeys, currentOpenRouterIndex, mode, isLoading,
                   sPath, sI, sLastError, sError, emitted, requests, deliveredAtOpen,
                   surfaced, hOutcome, turns, exceptChat>>

\* the generator returned: the loop ends, finally resets the loading flag
TurnCompletes ==
    /\ sPc = "done"
    /\ sPc' = "idle"
    /\ isLoading' = FALSE
    /\ hOutcome' = "completed"
    /\ UNCHANGED <<groqClient, openRouterKeys, currentOpenRouterIndex, mode, sPath, sI,
                   sLastError, sError, emitted, pending, requests, delivered,
                   deliveredAtOpen, fullContent, assistantContent, surfaced, turns,
                   exceptChat>>

DiscardPartial(content) == ""

\* the assistant message after handleSubmit's catch: the catch appends a
\* system message and leaves the messages before it as they are
AfterCatchContent(content) == content

\* the generator threw: the catch appends the error message, finally resets
TurnFails ==
    /\ sPc = "thrown"
    /\ sPc' = "idle"
    /\ isLoading' = FALSE
    /\ hOutcome' = "failed"
    /\ surfaced' = Append(surfaced, sError)
    /\ assistantContent' = AfterCatchContent(assistantContent)
    /\ UNCHANGED <<groqClient, openRouterKeys, currentOpenRouterIndex, mode, sPath, sI,
                   sLastError, sError, emitted, pending, requests, delivered,
                   deliveredAtOpen, fullContent, turns, exceptChat>>

(***************************************************************************)
(* Two streamChat turns in flight on one ChatService (OpenRouter path)     *)
(***************************************************************************)
Turns == {1, 2}

ConcIdle ==
    /\ validKeys = {}
    /\ tPc = [t \in Turns |-> "idle"]
    /\ tI = [t \in Turns |-> 0]
    /\ tRequests = [t \in Turns |-> <<>>]
    /\ tError = [t \in Turns |-> None]

\* a ChatService without Groq client, some of whose OpenRouter keys are
\* valid; the others answer 401 when the stream is opened
ConcInit ==
    /\ groqClient = FALSE
    /\ openRouterKeys \in 1..MaxChatKeys
    /\ currentOpenRouterIndex \in 0..(openRouterKeys - 1)
    /\ validKeys \in SUBSET (1..openRouterKeys) \ {{}}
    /\ mode = "uncensored"
    /\ isLoading = FALSE
    /\ sPc = "idle"
    /\ sPath = "none"
    /\ sI = 0
    /\ sLastError = None
    /\ sError = None
    /\ emitted = <<>>
    /\ pending = ""
    /\ requests = <<>>
    /\ delivered = <<>>
    /\ deliveredAtOpen = 0
    /\ fullContent = ""
    /\ assistantContent = ""
    /\ surfaced = <<>>
    /\ hOutcome = "none"
    /\ turns = 0
    /\ tPc = [t \in Turns |-> "idle"]
    /\ tI = [t \in Turns |-> 0]
    /\ tRequests = [t \in Turns |-> <<>>]
    /\ tError = [t \in Turns |-> None]

\* what a step of a concurrent turn leaves alone
exceptConc ==
    <<entry, pvars, poolvars, backend, rvars, cvars, dvars, bvars, validKeys,
      groqClient, openRouterKeys, mode, isLoading, sPc, sPath, sI, sLastError, sError,
      emitted, pending, requests, delivered, deliveredAtOpen, fullContent,
      assistantContent, surfaced, hOutcome, turns>>

\* streamChat of turn t up to the await of its first request
StreamChatCall(t) ==
    /\ entry = "concurrentChat"
    /\ tPc[t] = "idle"
    /\ tPc' = [tPc EXCEPT ![t] = "open"]
    /\ tRequests' = [tRequests EXCEPT
                       ![t] = <<getOpenRouterClient(currentOpenRouterIndex)>>]
    /\ UNCHANGED <<tI, tError, currentOpenRouterIndex, exceptConc>>

\* the request of turn t settles: a valid key streams to the end and the
\* generator returns; another key fails with 401, and the catch of the key
\* loop rotates the shared cursor and goes round again, or the loop ends
StreamChatSettles(t) ==
    /\ entry = "concurrentChat"
    /\ tPc[t] = "open"
    /\ LET key == tRequests[t][Len(tRequests[t])]
           err == MakeRequestError(401, Len(tRequests[t]))
       IN IF key \in validKeys
          THEN /\ tPc' = [tPc EXCEPT ![t] = "done"]
               /\ UNCHANGED <<tI, tRequests, tError, currentOpenRouterIndex>>
          ELSE IF ShouldRotate(err, <<>>)
          THEN /\ currentOpenRouterIndex' = rotateOpenRouterKey(currentOpenRouterIndex)
               /\ tI' = [tI EXCEPT ![t] = tI[t] + 1]
               /\ IF tI[t] + 1 < openRouterKeys
                  THEN /\ tRequests' = [tRequests EXCEPT ![t] = Append(tRequests[t],
                                  getOpenRouterClient(currentOpenRouterIndex'))]
                       /\ UNCHANGED <<tPc, tError>>
                  ELSE /\ tPc' = [tPc EXCEPT ![t] = "thrown"]
                       /\ tError' = [tError EXCEPT ![t] = err]
                       /\ UNCHANGED tRequests
          ELSE /\ tPc' = [tPc EXCEPT ![t] = "thrown"]
               /\ tError' = [tError EXCEPT ![t] = err]
               /\ UNCHANGED <<tI, tRequests, currentOpenRouterIndex>>
    /\ UNCHANGED exceptConc

(***************************************************************************)
(* Specification                                                           *)
(***************************************************************************)
Init ==
    \/ /\ entry = "getAllKeys"
       /\ ParseInit
       /\ geminiKeys = 0 /\ orKeys = 0 /\ groqKey = FALSE /\ refineProvider = "gemini"
       /\ backend = <<>>
       /\ RetryIdle /\ ChainIdle /\ DiagramIdle /\ BatchIdle /\ ChatIdle /\ ConcIdle
    \/ /\ entry \in {"getGeminiKeys", "getOpenRouterKeys"}
       /\ LoadInit
       /\ geminiKeys = 0 /\ orKeys = 0 /\ groqKey = FALSE /\ refineProvider = "gemini"
       /\ backend = <<>>
       /\ RetryIdle /\ ChainIdle /\ DiagramIdle /\ BatchIdle /\ ChatIdle /\ ConcIdle
    \/ /\ entry = "ChatService"
       /\ ParseInit
       /\ geminiKeys = 0 /\ orKeys = 0 /\ groqKey = FALSE /\ refineProvider = "gemini"
       /\ backend = <<>>
       /\ RetryIdle /\ ChainIdle /\ DiagramIdle /\ BatchIdle /\ ChatIdle /\ ConcIdle
    \/ /\ entry = "withProviderRetry"
       /\ DirectInit
       /\ ParseIdle /\ DiagramIdle /\ BatchIdle /\ ChatIdle /\ ConcIdle
    \/ /\ entry \in {"analyzeExamPaper", "refineAcademicAnswer"}
       /\ ChainInit
       /\ ParseIdle /\ DiagramIdle /\ BatchIdle /\ ChatIdle /\ ConcIdle
    \/ /\ entry = "generateTechnicalDiagram"
       /\ DiagramInit
       /\ ParseIdle /\ RetryIdle /\ ChainIdle /\ DiagramIdle /\ BatchIdle /\ ChatIdle /\ ConcIdle
    \/ /\ entry = "startGeneration"
       /\ BatchInit
       /\ geminiKeys = 0 /\ orKeys = 0 /\ groqKey = FALSE /\ refineProvider = "gemini"
       /\ backend = <<>>
       /\ ParseIdle /\ RetryIdle /\ ChainIdle /\ DiagramIdle /\ ChatIdle /\ ConcIdle
    \/ /\ entry = "chat"
       /\ ChatInit
       /\ geminiKeys = 0 /\ orKeys = 0 /\ groqKey = FALSE /\ refineProvider = "gemini"
       /\ backend = <<>>
       /\ ParseIdle /\ RetryIdle /\ ChainIdle /\ DiagramIdle /\ BatchIdle /\ ConcIdle
    \/ /\ entry = "concurrentChat"
       /\ ConcInit
       /\ geminiKeys = 0 /\ orKeys = 0 /\ groqKey = FALSE /\ refineProvider = "gemini"
       /\ backend = <<>>
       /\ ParseIdle /\ RetryIdle /\ ChainIdle /\ DiagramIdle /\ BatchIdle

Next ==
    \/ GetAllKeys
    \/ GetGeminiKeys
    \/ GetOpenRouterKeys
    \/ DirectCall
    \/ RetryInvoke
    \/ RetryDelay
    \/ AnalyzeCall
    \/ AnalyzeLayer1
    \/ AnalyzeLayer2
    \/ AnalyzeGroqNoKey
    \/ AnalyzeGroqFirstModel
    \/ AnalyzeGroqSecondModel
    \/ AnalyzeLayer4
    \/ RefineCall
    \/ RefineOpenRouter
    \/ RefineGemini
    \/ SecondExecution
    \/ DiagramCall
    \/ DiagramAttempt
    \/ DiagramDelay
    \/ StartGeneration
    \/ \E q \in 1..MaxQuestions : TaskSettles(q)
    \/ WaveDone
    \/ ConstructChatService
    \/ HandleSubmit
    \/ StreamOpen
    \/ StreamChunk
    \/ Consume
    \/ TurnCompletes
    \/ TurnFails
    \/ \E t \in Turns : StreamChatCall(t)
    \/ \E t \in Turns : StreamChatSettles(t)

Spec == Init /\ [][Next]_vars

(***************************************************************************)
(* Properties                                                              *)
(***************************************************************************)
InvocationsOn(key) == Cardinality({n \in 1..Len(rInvocations) : rInvocations[n].key = key})

KeysBehaving(o) == {r[2] : r \in {q \in DOMAIN backend : backend[q] = o}}

\* a direct call on a pool of N > 0 keys, K < N of which always fail with a
\* quota error while the other N - K succeed
QuotaOnlyPool ==
    /\ entry = "withProviderRetry"
    /\ KeysBehaving("ok") # {}
    /\ KeysBehaving("other") = {}

\* C1: with N > 0 keys of which K < N always fail with a quota error and the
\* others succeed, whatever the shuffle, withProviderRetry never throws, what
\* it returns is the value produced by a good key, and no key is invoked more
\* than maxRetriesPerKey times.
C1_QuotaFailover ==
    QuotaOnlyPool =>
        /\ rPc # "thrown"
        /\ \A k \in 1..MaxKeys : InvocationsOn(k) <= maxRetriesPerKey
        /\ rPc = "returned" =>
              /\ rInvocations[Len(rInvocations)].key \in KeysBehaving("ok")
              /\ rInvocations[Len(rInvocations)].outcome = "ok"
              /\ rResult = ValueOf(rLink)

C1_Witness ==
    /\ QuotaOnlyPool
    /\ rPc = "returned"
    /\ Cardinality(KeysBehaving("quota")) >= 2
    /\ Len(rInvocations) = 3

\* C5: when withProviderRetry has attempted every key without success, the
\* error it throws is the error of the last invocation of the operation, not
\* that of an earlier one.
C5_LastErrorThrown ==
    (rPc = "thrown" /\ Len(rInvocations) > 0) =>
        /\ rResult = rInvocations[Len(rInvocations)].error
        /\ \A n \in 1..(Len(rInvocations) - 1) : rResult # rInvocations[n].error
        /\ \A k \in 1..Len(shuffledKeys) : InvocationsOn(k) >= 1

C5_Witness ==
    /\ rPc = "thrown"
    /\ Len(rInvocations) >= 2
    /\ rInvocations[1].outcome # rInvocations[Len(rInvocations)].outcome

\* characters that survive splitting and trimming wherever they stand
Significant(c) == ~IsSeparator(c) /\ ~IsWhitespace(c)

RECURSIVE Flatten(_)
Flatten(ss) == IF ss = <<>> THEN <<>> ELSE Head(ss) \o Flatten(Tail(ss))

\* positions of the input holding the first significant character of a segment
SegmentStarts(s) ==
    {i \in 1..Len(s) :
        /\ Significant(s[i])
        /\ \A j \in 1..(i - 1) :
              Significant(s[j]) => \E m \in (j + 1)..(i - 1) : IsSeparator(s[m])}

\* C6: getAllKeys splits on every comma and newline, trims each entry, drops
\* the empty ones and keeps the order: no returned credential is empty, starts
\* or ends with whitespace, or holds a separator; the credentials are the
\* non-blank segments of the input in input order; "a, b,\nc" gives
\* <<a, b, c>>; an absent, empty or whitespace-only string gives <<>>.
C6_CredentialParsing ==
    (pPc = "returned" /\ entry # "ChatService") =>
        /\ \A i \in 1..Len(parsedKeys) :
              /\ Len(parsedKeys[i]) > 0
              /\ ~IsWhitespace(parsedKeys[i][1])
              /\ ~IsWhitespace(parsedKeys[i][Len(parsedKeys[i])])
              /\ \A j \in 1..Len(parsedKeys[i]) : ~IsSeparator(parsedKeys[i][j])
        /\ Len(parsedKeys) = Cardinality(SegmentStarts(keyString.chars))
        /\ SelectSeq(Flatten(parsedKeys), Significant)
              = SelectSeq(keyString.chars, Significant)
        /\ keyString.chars = ExampleString =>
              parsedKeys = << <<"a">>, <<"b">>, <<"c">> >>
        /\ (\A i \in 1..Len(keyString.chars) : IsWhitespace(keyString.chars[i])) =>
              parsedKeys = <<>>

C6_Witness ==
    /\ pPc = "returned"
    /\ keyString.chars = <<"a", "\n", " ", "b">>
    /\ parsedKeys = << <<"a">>, <<"b">> >>

\* the links of the layer-failure events recorded so far, in order
FailedLayers ==
    LET IsLayerFailed(e) == e.event = "layerFailed"
        evs == SelectSeq(cLog, IsLayerFailed)
    IN [i \in 1..Len(evs) |-> evs[i].link]

\* C3: when the first L - 1 links of a chain fail and the last one succeeds
\* (analyzeExamPaper L = 4, refineAcademicAnswer L = 2), the call returns the
\* last link's value and exactly L - 1 layer-failure events, one per failed
\* link and in link order, were recorded before the return.
C3_LastLinkServes ==
    /\ (entry = "analyzeExamPaper" /\ cPc = "returned"
          /\ cAttempts = <<"L1", "L2", "L3", "L4">>) =>
            /\ cResult = ValueOf("L4")
            /\ FailedLayers = <<"L1", "L2", "L3">>
    /\ (entry = "refineAcademicAnswer" /\ cPc = "returned"
          /\ cAttempts = <<"OR", "GEM">>) =>
            /\ cResult = ValueOf("GEM")
            /\ FailedLayers = <<"OR">>
    /\ cPc = "returned" => Len(FailedLayers) = Len(cAttempts) - 1

C3_Witness ==
    /\ entry = "analyzeExamPaper"
    /\ cPc = "returned"
    /\ cAttempts = <<"L1", "L2", "L3", "L4">>
    /\ Len(rInvocations) = 2

\* C4: when every link of a chain fails, the error raised to the caller
\* carries the error of the last link (Layer 4 for analyzeExamPaper, the
\* Gemini link for refineAcademicAnswer), never that of an earlier link.
C4_LastLinkErrorRaised ==
    cPc = "thrown" =>
        /\ rPc = "thrown"
        /\ entry = "analyzeExamPaper" =>
              /\ rLink = "L4"
              /\ cResult.cause = rResult
              /\ \A i \in 1..Len(cLog) :
                    cLog[i].event = "layerFailed" => cResult.cause # cLog[i].error
        /\ entry = "refineAcademicAnswer" =>
              /\ rLink = "GEM"
              /\ cResult = rResult
              /\ \A i \in 1..Len(cLog) :
                    cLog[i].event = "layerFailed" => cResult # cLog[i].error

C4_Witness ==
    /\ entry = "analyzeExamPaper"
    /\ cPc = "thrown"
    /\ Len(FailedLayers) = 3
    /\ Len(rInvocations) = 2
    /\ cResult.cause.kind = "quota"

\* C9: two independent executions of the same chain entry point on the same
\* input, the same key configuration and deterministic backends return the
\* same successful result, whatever order each shuffle picked.
C9_SameResultTwice ==
    (run = 2 /\ cPc \in {"returned", "thrown"}
       /\ (cPc = "returned" \/ firstResult.kind = "value")) =>
        cResult = firstResult

\* both executions succeeded on Layer 1, the first one with another key
C9_Witness ==
    /\ run = 2
    /\ cPc = "returned"
    /\ rLink = "L1"
    /\ Len(shuffledKeys) = 2
    /\ Len(rInvocations) = 1
    /\ <<"L1", shuffledKeys[2]>> \in DOMAIN backend
    /\ cResult = firstResult

\* the result the task of question q must end with
ExpectedResult(q) == IF q \in failing THEN Placeholder(q) ELSE Refined(q)

\* C7: a batch of N enabled questions of which the set F always fails ends in
\* COMPLETED with exactly N results in input order, placeholders exactly at
\* the positions of F and refined answers elsewhere, and a failure count of
\* |F|; while a wave is in flight a failed task leaves every sibling's result
\* alone and every unsettled sibling able to settle.
C7_BatchIsolation ==
    /\ appState = "GENERATING" =>
          \A q \in DOMAIN batchResults :
             /\ batchResults[q] \in {Pending, ExpectedResult(q)}
             /\ batchResults[q] = Pending => ENABLED TaskSettles(q)
    /\ (entry = "startGeneration" /\ appState = "COMPLETED") =>
          /\ Len(refinedQuestions) = enabledQuestions
          /\ \A q \in 1..enabledQuestions : refinedQuestions[q] = ExpectedResult(q)
          /\ failureCount = Cardinality(failing)
          /\ (appError # None) <=> (failing # {})

C7_Witness ==
    /\ appState = "COMPLETED"
    /\ enabledQuestions = 5
    /\ failing = {3}
    /\ Len(refinedQuestions) = 5
    /\ refinedQuestions[3] = Placeholder(3)

IsDelta(c) == c # ""

\* what the consumer received from the stream that is open now
DeliveredFromStream == SubSeq(delivered, deliveredAtOpen + 1, Len(delivered))

\* C8: streamChat yields exactly the non-empty deltas of the backend, in
\* backend order, each once and not as cumulative prefixes, each one handed to
\* the consumer before the next chunk is read; when the stream completes, what
\* was yielded concatenates to the concatenation of the backend's deltas.
C8_IncrementalStream ==
    /\ sPc = "read" => DeliveredFromStream = SelectSeq(emitted, IsDelta)
    /\ sPc = "yield" =>
          /\ emitted[Len(emitted)] = pending
          /\ Append(DeliveredFromStream, pending) = SelectSeq(emitted, IsDelta)
    /\ (sPc = "done" /\ deliveredAtOpen = 0) =>
          /\ delivered = SelectSeq(emitted, IsDelta)
          /\ fullContent = ConcatAll(emitted)
          /\ assistantContent = ConcatAll(emitted)

C8_Witness ==
    /\ sPc = "done"
    /\ emitted = <<"Hel", "lo">>
    /\ delivered = <<"Hel", "lo">>
    /\ fullContent = "Hello"

\* C10 (as claimed): once a delta of the turn has been delivered, no further
\* request is issued: a request is awaited, and a stream is open, only while
\* nothing of an earlier attempt has reached the consumer.
C10_NoResendAfterDelta ==
    /\ sPc = "open" => delivered = <<>>
    /\ sPc \in {"read", "yield", "done"} => deliveredAtOpen = 0

\* the chat turn needs a provider that has no credential
ChatProviderMissing == ~(isGroqMode(mode) /\ groqClient) /\ openRouterKeys = 0

\* C2: an operation whose provider has no credential fails with the
\* configuration error before any request or callback: withProviderRetry
\* throws the error naming the provider without invoking the operation,
\* generateTechnicalDiagram throws the missing-key error on its first attempt
\* without any backoff, streamChat throws the settings error before any
\* request is opened or any delta is yielded.
C2_NoCredentialNoRequest ==
    /\ (rLink # "none" /\ Len(PoolOf(ProviderOf(rLink))) = 0) =>
          /\ rPc = "thrown"
          /\ rResult = NoKeysError(ProviderOf(rLink))
          /\ rInvocations = <<>>
          /\ rDelays = 0
    /\ (entry = "generateTechnicalDiagram" /\ geminiKeys = 0) =>
          /\ dPc \in {"idle", "attempt", "thrown"}
          /\ dI = 0
          /\ dRequests = <<>>
          /\ dWaits = <<>>
          /\ dPc = "thrown" => dResult = MissingKeyError
    /\ (entry = "chat" /\ turns > 0 /\ ChatProviderMissing) =>
          /\ sPc \in {"thrown", "idle"}
          /\ sError = SettingsError(mode)
          /\ requests = <<>>
          /\ delivered = <<>>
          /\ sPc = "idle" => (hOutcome = "failed" /\ surfaced = <<sError>>)

C2_Witness ==
    /\ entry = "generateTechnicalDiagram"
    /\ geminiKeys = 0
    /\ dPc = "thrown"
    /\ dResult = MissingKeyError

\* a request of the OpenRouter key loop, or its stream, fails in this step
OpenRouterAttemptFails ==
    /\ sPath = "openrouter"
    /\ sLastError' # sLastError
    /\ sLastError' # None

KeysRequested == {requests[n].key : n \in 1..Len(requests)}

\* C11: on the OpenRouter chat path a failed attempt is followed by a rotation
\* and a new request only if its error has status 401: a 401 advances the
\* cursor by one and, while the turn has made fewer requests than the pool
\* has keys, sends the next request with a credential this turn has not used;
\* a 404 becomes the model-not-found error and, like every other non-401
\* failure, ends the turn at once with the cursor and the requests unchanged.
C11_RotateOnlyOn401 ==
    [][OpenRouterAttemptFails =>
         LET err == sLastError' IN
         /\ (err.http = 404) <=> (err.kind = "modelNotFound")
         /\ IF err.http = 401
            THEN /\ currentOpenRouterIndex' = (currentOpenRouterIndex + 1) % openRouterKeys
                 /\ IF Len(requests) < openRouterKeys
                    THEN /\ sPc' = "open"
                         /\ Len(requests') = Len(requests) + 1
                         /\ SubSeq(requests', 1, Len(requests)) = requests
                         /\ requests'[Len(requests')].provider = "openrouter"
                         /\ requests'[Len(requests')].key \notin KeysRequested
                    ELSE /\ sPc' = "thrown"
                         /\ sError' = err
                         /\ requests' = requests
            ELSE /\ sPc' = "thrown"
                 /\ sError' = err
                 /\ requests' = requests
                 /\ currentOpenRouterIndex' = currentOpenRouterIndex]_vars

\* a 401 on the first key was followed by a request with the second key
C11_Witness ==
    /\ sPath = "openrouter"
    /\ sPc = "open"
    /\ sLastError # None
    /\ sLastError.http = 401
    /\ currentOpenRouterIndex = 1
    /\ Len(requests) = 2
    /\ requests[1].key # requests[2].key

AnalyzeOrder == <<"L1", "L2", "L3", "L4">>

IsPrefix(p, q) == Len(p) <= Len(q) /\ p = SubSeq(q, 1, Len(p))

\* the chain link a request or an error belongs to (Groq calls two models)
LayerOf(link) == IF link \in {"L3m1", "L3m2"} THEN "L3" ELSE link

LinksAttempted == {cAttempts[i] : i \in 1..Len(cAttempts)}

\* err is a failure of the given link: its configuration error, or the
\* error of one of its own requests
FailureOf(link, err) ==
    /\ err # None
    /\ err.kind = "config" \/ (err.kind \in {"quota", "other"} /\ LayerOf(err.link) = link)

\* C12: analyzeExamPaper attempts Gemini (requested model), Gemini
\* gemini-2.0-flash-exp, Groq vision, OpenRouter vision in that order: the
\* links attempted are always a prefix of that order, every link before the
\* current one has a recorded failure of its own, only attempted links have
\* sent requests, and the link that returned is the last one attempted.
C12_AnalyzeOrder ==
    entry = "analyzeExamPaper" =>
        /\ IsPrefix(cAttempts, AnalyzeOrder)
        /\ cPc # "idle" => cAttempts # <<>>
        /\ cPc \notin {"idle", "thrown"} =>
              FailedLayers = SubSeq(cAttempts, 1, Len(cAttempts) - 1)
        /\ cPc = "thrown" =>
              /\ cAttempts = AnalyzeOrder
              /\ FailedLayers = <<"L1", "L2", "L3">>
              /\ FailureOf("L4", cLog[Len(cLog)].error)
        /\ \A i \in 1..Len(cLog) :
              cLog[i].event = "layerFailed" => FailureOf(cLog[i].link, cLog[i].error)
        /\ run = 1 => \A r \in DOMAIN backend : LayerOf(r[1]) \in LinksAttempted
        /\ cPc = "returned" => LayerOf(cResult.of) = cAttempts[Len(cAttempts)]

\* the second Groq model served the call: OpenRouter was never attempted
C12_Witness ==
    /\ entry = "analyzeExamPaper"
    /\ cPc = "returned"
    /\ cAttempts = <<"L1", "L2", "L3">>
    /\ cResult = ValueOf("L3m2")
    /\ run = 1

RequestsOf(link) == {r \in DOMAIN backend : r[1] = link}

\* C13: refineAcademicAnswer starts with OpenRouter whenever its pool has a
\* key, whatever provider the caller passed; Gemini is attempted only with an
\* empty OpenRouter pool or after every OpenRouter key was tried and failed,
\* and a call that OpenRouter served never attempted Gemini.
C13_OpenRouterFirst ==
    entry = "refineAcademicAnswer" =>
        /\ cAttempts \in {<<>>, <<"OR">>, <<"GEM">>, <<"OR", "GEM">>}
        /\ cPc # "idle" => (cAttempts[1] = "OR" <=> orKeys > 0)
        /\ ("GEM" \in LinksAttempted /\ orKeys > 0) =>
              /\ cAttempts = <<"OR", "GEM">>
              /\ \A k \in 1..orKeys :
                    /\ <<"OR", k>> \in DOMAIN backend
                    /\ backend[<<"OR", k>>] # "ok"
        /\ (run = 1 /\ "GEM" \notin LinksAttempted) => RequestsOf("GEM") = {}
        /\ (cPc = "returned" /\ cResult.of = "OR") =>
              /\ cAttempts = <<"OR">>
              /\ \E k \in 1..orKeys :
                    /\ <<"OR", k>> \in DOMAIN backend
                    /\ backend[<<"OR", k>>] = "ok"

\* the caller passed gemini and an OpenRouter key served the call
C13_Witness ==
    /\ entry = "refineAcademicAnswer"
    /\ refineProvider = "gemini"
    /\ geminiKeys > 0
    /\ cPc = "returned"
    /\ cResult.of = "OR"
    /\ cAttempts = <<"OR">>
    /\ run = 1
    /\ RequestsOf("GEM") = {}

\* C14 (as claimed): when every link of a chain has failed, the error raised
\* to the caller names the number of layers that were attempted.
C14_ErrorNamesLayerCount ==
    (entry \in {"analyzeExamPaper", "refineAcademicAnswer"} /\ cPc = "thrown") =>
        /\ "layers" \in DOMAIN cResult
        /\ cResult.layers = Len(cAttempts)

\* the sources a key loader looks at, in lookup order: override, then environment
Sources == <<localStored>> \o envValues

NonEmptySources == {i \in 1..Len(Sources) : Truthy(Sources[i])}

\* C15: getGeminiKeys and getOpenRouterKeys return the parsed credentials of
\* exactly one source, the first non-empty one in the order override,
\* environment: a non-empty override alone decides the result, and the result
\* is never built from two sources.
C15_FirstSourceWins ==
    (entry \in {"getGeminiKeys", "getOpenRouterKeys"} /\ pPc = "returned") =>
        /\ IF NonEmptySources = {} THEN parsedKeys = <<>>
           ELSE \E i \in NonEmptySources :
                   /\ \A j \in NonEmptySources : i <= j
                   /\ keyString = Sources[i]
                   /\ parsedKeys = getAllKeys(Sources[i])
        /\ Truthy(localStored) => parsedKeys = getAllKeys(localStored)
        /\ parsedKeys \in {<<>>} \cup {getAllKeys(Sources[i]) : i \in 1..Len(Sources)}

\* the override and the environment hold different keys: the override is returned
C15_Witness ==
    /\ entry = "getGeminiKeys"
    /\ pPc = "returned"
    /\ localStored.chars = <<"a">>
    /\ envValues[1].chars = <<"b">>
    /\ parsedKeys = << <<"a">> >>

\* C16: withProviderRetry returns at the first successful invocation: no
\* invocation follows a successful one and the call has returned that
\* value; when the first key attempted succeeds, the operation was invoked
\* exactly once, on that key only, and no delay was inserted.
C16_HappyPath ==
    rLink # "none" =>
        /\ \A n \in 1..(Len(rInvocations) - 1) : rInvocations[n].outcome # "ok"
        /\ (rInvocations # <<>> /\ rInvocations[Len(rInvocations)].outcome = "ok") =>
              /\ rPc = "returned"
              /\ rResult = ValueOf(rLink)
        /\ rPc = "returned" =>
              /\ rInvocations # <<>>
              /\ rInvocations[Len(rInvocations)].outcome = "ok"
        /\ (rInvocations # <<>> /\ rInvocations[1].outcome = "ok") =>
              /\ Len(rInvocations) = 1
              /\ rInvocations[1].key = shuffledKeys[1]
              /\ \A k \in 1..Len(shuffledKeys) :
                    InvocationsOn(shuffledKeys[k]) = (IF k = 1 THEN 1 ELSE 0)
              /\ rDelays = 0

\* the first of three keys succeeded at once, with a retry budget of two
C16_Witness ==
    /\ entry = "withProviderRetry"
    /\ rPc = "returned"
    /\ Len(shuffledKeys) = 3
    /\ maxRetriesPerKey = 2
    /\ Len(rInvocations) = 1
    /\ rDelays = 0

\* C17 (as claimed): the key pool the ChatService constructor builds from a
\* configuration value is the one getAllKeys builds from it: one entry per
\* credential delimited by commas or by newlines, trimmed, empty ones dropped.
C17_ChatPoolSameFormat ==
    (entry = "ChatService" /\ pPc = "returned") =>
        /\ parsedKeys = getAllKeys(keyString)
        /\ openRouterKeys = Len(getAllKeys(keyString))

\* an invocation of the operation fails in this step with the given outcome
InvocationFails(o) ==
    /\ rPc = "invoke"
    /\ Len(rInvocations') = Len(rInvocations) + 1
    /\ rInvocations'[Len(rInvocations')].outcome = o

\* C18: when an invocation fails with a quota error and a key of the
\* shuffled pool is still untried, the call goes straight to the next key in
\* shuffled order: no further attempt on the failing key whatever is left of
\* its retry budget, and no delay.
C18_FastFailover ==
    [][(InvocationFails("quota") /\ rKeyPos < Len(shuffledKeys)) =>
         /\ rPc' = "invoke"
         /\ rKeyPos' = rKeyPos + 1
         /\ rI' = 0
         /\ rDelays' = rDelays
         /\ shuffledKeys' = shuffledKeys
         /\ Cardinality({n \in 1..Len(rInvocations') :
                            rInvocations'[n].key = shuffledKeys[rKeyPos]}) = 1]_vars

\* a quota error on the first of two keys, with a retry budget of two: the
\* second key is next, after one invocation and no delay
C18_Witness ==
    /\ entry = "withProviderRetry"
    /\ rPc = "invoke"
    /\ maxRetriesPerKey = 2
    /\ Len(shuffledKeys) = 2
    /\ rKeyPos = 2
    /\ Len(rInvocations) = 1
    /\ rInvocations[1].outcome = "quota"
    /\ rInvocations[1].key = shuffledKeys[1]
    /\ rDelays = 0

\* C19 (as claimed): a quota error on the only key left to try, be it the
\* key of a single-key pool or the last key in shuffled order of a larger
\* pool, with fewer than maxRetriesPerKey attempts made on it, is followed by
\* the delay and another invocation on the same key.
C19_LastKeyRetried ==
    [][(InvocationFails("quota") /\ rKeyPos = Len(shuffledKeys)
          /\ rI + 1 < maxRetriesPerKey) =>
         /\ rPc' = "delay"
         /\ rKeyPos' = rKeyPos]_vars

\* C19 (amended): on a single-key pool a quota error with fewer than
\* maxRetriesPerKey attempts made is followed by one delay and another
\* invocation on the same key, until maxRetriesPerKey attempts were made and
\* the call throws; on a larger pool no key is retried and no delay is
\* inserted, the last key in shuffled order included.
C19_SingleKeyRetry ==
    [][/\ (InvocationFails("quota") /\ Len(shuffledKeys) = 1
             /\ rI + 1 < maxRetriesPerKey) =>
            /\ rPc' = "delay"
            /\ rKeyPos' = rKeyPos
            /\ rI' = rI
            /\ rDelays' = rDelays
       /\ rPc = "delay" =>
            /\ Len(shuffledKeys) = 1
            /\ rPc' = "invoke"
            /\ rKeyPos' = rKeyPos
            /\ rI' = rI + 1
            /\ rDelays' = rDelays + 1
            /\ rInvocations' = rInvocations
       /\ (InvocationFails("quota") /\ Len(shuffledKeys) = 1
             /\ rI + 1 = maxRetriesPerKey) =>
            /\ rPc' = "thrown"
            /\ Len(rInvocations') = maxRetriesPerKey
            /\ rDelays' = maxRetriesPerKey - 1
            /\ \A n \in 1..Len(rInvocations') :
                  /\ rInvocations'[n].key = shuffledKeys[1]
                  /\ rInvocations'[n].outcome = "quota"
       /\ (InvocationFails("quota") /\ Len(shuffledKeys) > 1) =>
            /\ rPc' \in {"invoke", "thrown"}
            /\ rPc' = "thrown" <=> rKeyPos = Len(shuffledKeys)
            /\ rI = 0
            /\ rDelays' = 0]_vars

\* the only key failed twice with quota errors, one delay in between
C19_Witness ==
    /\ entry = "withProviderRetry"
    /\ rPc = "thrown"
    /\ Len(shuffledKeys) = 1
    /\ maxRetriesPerKey = 2
    /\ Len(rInvocations) = 2
    /\ rInvocations[1].outcome = "quota"
    /\ rInvocations[2].outcome = "quota"
    /\ rDelays = 1

C21_BoundedBackoff ==
    (entry = "generateTechnicalDiagram" /\ geminiKeys > 0) =>
        /\ dI < maxRetries
        /\ Len(dRequests) <= maxRetries
        /\ IsPrefix(dWaits, <<2000, 4000>>)
        /\ dPc \in {"idle", "attempt"} =>
              /\ Len(dRequests) = dI
              /\ Len(dWaits) = dI
        /\ dPc = "delay" =>
              /\ Len(dRequests) = dI + 1
              /\ Len(dWaits) = dI + 1
              /\ dWaits[Len(dWaits)] = initialDelay * Pow2(dI)
        /\ dPc \in {"returned", "thrown"} =>
              /\ Len(dRequests) = dI + 1
              /\ Len(dWaits) = dI
        /\ (dPc = "thrown" /\ isQuotaError(dResult)) =>
              /\ Len(dRequests) = maxRetries
              /\ dWaits = <<2000, 4000>>
        /\ dPc = "thrown" => dResult.n = Len(dRequests)

\* three quota errors: waits of 2000 and 4000, then the third error is thrown
C21_Witness ==
    /\ entry = "generateTechnicalDiagram"
    /\ dPc = "thrown"
    /\ isQuotaError(dResult)
    /\ Len(dRequests) = 3
    /\ dWaits = <<2000, 4000>>

\* C22 (as claimed): every link of a chain, the Groq link included, runs
\* under withProviderRetry for its provider: while a link is in progress the
\* retry policy is running for it, a link is recorded as failed only after
\* every key of its provider was attempted, and no link sends two requests
\* with the same credential (one model, one pass over the keys).
C22_LinksThroughRetryPolicy ==
    (entry \in {"analyzeExamPaper", "refineAcademicAnswer"} /\ run = 1) =>
        /\ cPc \notin {"idle", "returned", "thrown"} =>
              rLink = cAttempts[Len(cAttempts)]
        /\ \A k \in 1..Len(shuffledKeys) : InvocationsOn(shuffledKeys[k]) <= 1
        /\ \A q, r \in DOMAIN backend :
              (LayerOf(q[1]) = LayerOf(r[1]) /\ q[2] = r[2]) => q = r
        /\ \A i \in 1..Len(cLog) :
              (cLog[i].event = "layerFailed" /\ cLog[i].link # "L3") =>
                 \A k \in 1..Len(PoolOf(ProviderOf(cLog[i].link))) :
                    <<cLog[i].link, k>> \in DOMAIN backend

\* the tasks that have started and not settled
InFlight == {q \in DOMAIN batchResults : batchResults[q] = Pending}

\* C24: during startGeneration at most 3 tasks are in flight; the tasks
\* started are those of the current wave only, after every task of the
\* earlier waves has settled into results; currentGenStep never exceeds the
\* number of enabled questions and equals it in COMPLETED.
C24_BatchWaves ==
    entry = "startGeneration" =>
        /\ Cardinality(InFlight) <= 3
        /\ Cardinality(DOMAIN batchResults) <= 3
        /\ currentGenStep <= enabledQuestions
        /\ appState = "GENERATING" =>
              /\ DOMAIN batchResults = {q \in 1..enabledQuestions : bI < q /\ q <= bI + 3}
              /\ Len(results) = bI
              /\ \A q \in 1..bI : results[q] \in {Refined(q), Placeholder(q)}
              /\ currentGenStep = bI
        /\ appState = "COMPLETED" =>
              /\ currentGenStep = enabledQuestions
              /\ InFlight = {}

\* the second wave of five questions is in flight after the first has settled
C24_Witness ==
    /\ entry = "startGeneration"
    /\ appState = "GENERATING"
    /\ enabledQuestions = 5
    /\ bI = 3
    /\ Len(results) = 3
    /\ InFlight = {4, 5}
    /\ currentGenStep = 3

\* C23: a chat turn whose generator threw after k >= 0 delivered deltas ends
\* without another request: the error is surfaced once, the assistant
\* message keeps the text of the k deltas, and the loading flag is reset; a
\* completed turn resets the flag too and surfaces nothing; the flag is set
\* exactly while a turn is running.
C23_FailedTurnKeepsText ==
    [][entry = "chat" =>
         /\ sPc = "thrown" =>
               /\ sPc' = "idle"
               /\ hOutcome' = "failed"
               /\ surfaced = <<>>
               /\ surfaced' = <<sError>>
               /\ assistantContent = ConcatAll(delivered)
               /\ assistantContent' = assistantContent
               /\ requests' = requests
               /\ delivered' = delivered
               /\ isLoading' = FALSE
         /\ sPc = "done" =>
               /\ sPc' = "idle"
               /\ hOutcome' = "completed"
               /\ surfaced' = <<>>
               /\ assistantContent' = assistantContent
               /\ isLoading' = FALSE
         /\ isLoading' <=> sPc' # "idle"]_vars

\* a turn failed with a 500 after "Hel" was delivered
C23_Witness ==
    /\ entry = "chat"
    /\ sPc = "idle"
    /\ hOutcome = "failed"
    /\ ~isLoading
    /\ delivered = <<"Hel">>
    /\ assistantContent = "Hel"
    /\ Len(surfaced) = 1
    /\ surfaced[1].http = 500

\* C25: for a ChatService with N > 0 OpenRouter keys the cursor stays within
\* 0..N-1 through every turn, a step changes it only from c to (c + 1) mod N,
\* and an OpenRouter request is made with the credential at the cursor.
C25_CursorInvariant ==
    [][(entry = "chat" /\ openRouterKeys > 0) =>
         /\ currentOpenRouterIndex \in 0..(openRouterKeys - 1)
         /\ currentOpenRouterIndex' \in 0..(openRouterKeys - 1)
         /\ currentOpenRouterIndex' \in
               {currentOpenRouterIndex, (currentOpenRouterIndex + 1) % openRouterKeys}
         /\ (sPath' = "openrouter" /\ sPc' = "open") =>
               /\ requests' # <<>>
               /\ requests'[Len(requests')] =
                     Request("openrouter", currentOpenRouterIndex' + 1)]_vars

\* the second turn starts on the second key, where a rotation left the cursor
C25_Witness ==
    /\ entry = "chat"
    /\ openRouterKeys = 2
    /\ turns = 2
    /\ currentOpenRouterIndex = 1
    /\ sPc = "open"
    /\ requests = <<Request("openrouter", 2)>>

NoRepeat(seq) == \A i, j \in 1..Len(seq) : seq[i] = seq[j] => i = j

\* C26 (as claimed): with two streamChat turns in flight on one ChatService
\* whose pool has a valid key, the others failing with 401 at stream open,
\* no turn attempts a credential twice and no turn fails, in any interleaving.
C26_ConcurrentTurnsSucceed ==
    entry = "concurrentChat" =>
        \A t \in Turns :
           /\ NoRepeat(tRequests[t])
           /\ tPc[t] # "thrown"

\* the keys follow each other round the pool
Consecutive(keys, n) == \A i \in 1..(Len(keys) - 1) : keys[i + 1] = (keys[i] % n) + 1

\* C27: one chat turn on the OpenRouter path with N keys makes at most N
\* requests, on distinct credentials that follow each other round the pool
\* from the cursor; a turn that throws a 401 has made exactly N requests and
\* throws the error of the last one; a turn running alone on a pool with a
\* valid key, the others failing with 401 at stream open, does not fail,
\* wherever the cursor started.
C27_OneTurnOnePass ==
    /\ (entry = "chat" /\ sPath = "openrouter") =>
          /\ Len(requests) <= openRouterKeys
          /\ NoRepeat(requests)
          /\ Consecutive([n \in 1..Len(requests) |-> requests[n].key], openRouterKeys)
          /\ (sPc = "thrown" /\ sError.http = 401) =>
                /\ Len(requests) = openRouterKeys
                /\ sError.req = openRouterKeys
    /\ entry = "concurrentChat" =>
          \A t \in Turns :
             (\A u \in Turns \ {t} : tPc[u] = "idle") =>
                /\ tPc[t] # "thrown"
                /\ Len(tRequests[t]) <= openRouterKeys
                /\ NoRepeat(tRequests[t])
                /\ Consecutive(tRequests[t], openRouterKeys)
                /\ tPc[t] = "done" => tRequests[t][Len(tRequests[t])] \in validKeys

\* the cursor started on the second key, which answered 401; the turn went
\* round to the first key and completed
C27_Witness ==
    /\ entry = "concurrentChat"
    /\ openRouterKeys = 2
    /\ validKeys = {1}
    /\ tPc = [t \in Turns |-> IF t = 1 THEN "done" ELSE "idle"]
    /\ tRequests[1] = <<2, 1>>

\* the OpenRouter turn has ended in a way other than a thrown 401
EndsWithout401 ==
    /\ sPath = "openrouter"
    /\ sPc = "done" \/ (sPc = "thrown" /\ sError.http # 401)

\* C28: the cursor changes only when an OpenRouter attempt fails with 401 and
\* never on the Groq path; a turn that completes or fails with another error
\* leaves it on the credential of its last request, which the next OpenRouter
\* turn then starts with; a turn that throws a 401, every key having
\* answered 401, leaves it where the turn started.
C28_CursorFrame ==
    [][entry = "chat" =>
         /\ currentOpenRouterIndex' # currentOpenRouterIndex =>
               /\ OpenRouterAttemptFails
               /\ sLastError'.http = 401
         /\ (sPath = "groq" /\ sPath' = "groq") =>
               currentOpenRouterIndex' = currentOpenRouterIndex
         /\ EndsWithout401' =>
               requests'[Len(requests')].key = currentOpenRouterIndex' + 1
         /\ (sPath' = "openrouter" /\ sPc' = "thrown" /\ sError'.http = 401) =>
               currentOpenRouterIndex' = requests'[1].key - 1
         /\ (sPc = "idle" /\ sPath = "openrouter" /\ sPath' = "openrouter"
               /\ sPc' = "open"
               /\ (hOutcome = "completed" \/ (hOutcome = "failed" /\ sError.http # 401))) =>
               requests'[1] = requests[Len(requests)]]_vars

\* both keys answered 401: two rotations brought the cursor back to 0
C28_Witness ==
    /\ entry = "chat"
    /\ turns = 1
    /\ openRouterKeys = 2
    /\ sPc = "thrown"
    /\ sError.http = 401
    /\ Len(requests) = 2
    /\ currentOpenRouterIndex = 0

\* C29 (as claimed): the pool getGeminiKeys or getOpenRouterKeys returns is
\* empty only when no source, override or environment, holds a valid
\* credential.
C29_EmptyOnlyWithoutCredential ==
    (entry \in {"getGeminiKeys", "getOpenRouterKeys"} /\ pPc = "returned") =>
        (parsedKeys = <<>> =>
            \A i \in 1..Len(Sources) : getAllKeys(Sources[i]) = <<>>)

\* C30: a turn in mode pro or flash on a ChatService with a Groq client
\* sends one request, to Groq, and no OpenRouter request whatever the pool
\* holds: a failure of that request, of any status, is thrown and surfaced
\* without passing through the key loop; OpenRouter serves these modes only
\* without a Groq client.
C30_GroqOnly ==
    (entry = "chat" /\ turns > 0) =>
        /\ (mode \in {"pro", "flash"} /\ groqClient) =>
              /\ sPath = "groq"
              /\ requests = <<Request("groq", 1)>>
              /\ sLastError = None
              /\ (sPc = "idle" /\ hOutcome = "failed") => surfaced = <<sError>>
        /\ (mode \in {"pro", "flash"} /\ sPath = "openrouter") => ~groqClient
        /\ (\E n \in 1..Len(requests) : requests[n].provider = "openrouter") =>
              (mode = "uncensored" \/ ~groqClient)

\* the Groq request of a flash turn failed with 401: surfaced, and neither
\* of the two OpenRouter keys was used
C30_Witness ==
    /\ entry = "chat"
    /\ mode = "flash"
    /\ groqClient
    /\ openRouterKeys = 2
    /\ sPc = "idle"
    /\ hOutcome = "failed"
    /\ sError.http = 401
    /\ requests = <<Request("groq", 1)>>
    /\ surfaced = <<sError>>
====
